---- MODULE Spec2Model ----
(***************************************************************************)
(* Stream pipelines of nodejs-streams-internals: a readable stream feeding *)
(* a chain of transform streams and a writable stream, each link a buffer  *)
(* with a highWaterMark, as wired by pipeline() (unnamed/part_000), by a   *)
(* pipe() chain (server.js notes) or by a hand-written "data" handler      *)
(* (server.js).  Stage 0 is the readable (Source), stages 1..nT are the    *)
(* transforms, stage nT+1 is the writable (Sink); buf[i] links stage i to  *)
(* stage i+1.                                                              *)
(***************************************************************************)
EXTENDS Integers, Sequences, FiniteSets, TLC

\* ---------------------------------------------------------------- bounds
MaxChunks == 3
MaxTransforms == 2
MaxHwm == 6
MaxCancels == 2
MaxOps == 6

\* highWaterMark of the custom readable in the notes
NotesHwm == 2

\* ---------------------------------------------------------------- chunks
\* A chunk is a short text, a sequence of words; its size is in bytes.
WordLen(w) == CASE w = "Ipsum" -> 5
                [] w = "ab" -> 2
                [] w = "geo" -> 3
                [] OTHER -> 1

Chunks == {<<"ab">>, <<"Ipsum", "ab">>}

RECURSIVE ByteLength(_)
ByteLength(c) == IF c = <<>> THEN 0 ELSE WordLen(Head(c)) + ByteLength(Tail(c))

\* chunk.toString().replaceAll(/ipsum/gi, "geo")
ReplaceWord(w) == IF w \in {"Ipsum", "ipsum", "IPSUM"} THEN "geo" ELSE w

replaceAll(c) == [i \in 1..Len(c) |-> ReplaceWord(c[i])]

RECURSIVE Files(_)
Files(n) == IF n = 0 THEN {<<>>}
            ELSE Files(n - 1) \cup
                 {Append(f, c) : f \in {g \in Files(n - 1) : Len(g) = n - 1}, c \in Chunks}

\* ---------------------------------------------------------------- errors
NoError == [type |-> "none"]
OriginError == [type |-> "OriginError"]
DeliveryError == [type |-> "DeliveryError"]
Cancelled == [type |-> "Cancelled"]
TransformError(k) == [type |-> "TransformError", stage |-> k]

NoFault == [at |-> "none"]
Faults(n, t) == {NoFault}
                \cup {[at |-> "origin", n |-> j] : j \in 0..n}
                \cup {[at |-> "transform", stage |-> k, n |-> j, uncaught |-> u] :
                         k \in 0..(t - 1), j \in 1..n, u \in BOOLEAN}
                \cup {[at |-> "deliver", n |-> j] : j \in 1..n}

NoResult == [kind |-> "none"]
Completed == [kind |-> "Completed"]
Failed(e) == [kind |-> "Failed", error |-> e]

VARIABLES mode, file, nT, hwm, fault,
          st, err, buf, pos, consumed, delivered,
          result, reports, resEnds, closedPushes, cancels, resumes, crashed,
          tb, last, ops

vars == <<mode, file, nT, hwm, fault, st, err, buf, pos, consumed, delivered,
          result, reports, resEnds, closedPushes, cancels, resumes, crashed,
          tb, last, ops>>

config == <<mode, file, nT, hwm, fault>>
harness == <<tb, last, ops>>

Source == 0
Sink == nT + 1
Stages == 0..(nT + 1)
Producers == 0..nT
Transforms == 1..nT

\* ---------------------------------------------------------------- buffer
RECURSIVE Occupied(_)
Occupied(q) == IF q = <<>> THEN 0 ELSE ByteLength(Head(q)) + Occupied(Tail(q))

EmptyBuffer == [q |-> <<>>, ended |-> FALSE, error |-> NoError,
                needDrain |-> FALSE, drain |-> FALSE]

Closed(b) == b.ended \/ b.error # NoError

pushReplace(b, c) == [b EXCEPT !.q = <<c>>, !.needDrain = @ \/ ByteLength(c) >= hwm]
pushForgetful(b, c) == [b EXCEPT !.q = Append(@, c)]
\* readable.push(chunk) / writable.write(chunk): the chunk joins the tail; the
\* buffer remembers that it told its producer it was full.
push(b, c) == [b EXCEPT !.q = Append(@, c),
                        !.needDrain = @ \/ Occupied(b.q) + ByteLength(c) >= hwm]

belowAtMost(b) == Occupied(b.q) <= hwm
belowAlways(b) == TRUE
\* the value push()/write() returns: is there space left
belowCapacity(b) == Occupied(b.q) < hwm

\* a push is refused once end-of-stream or an error is recorded
tryPush(b, c) == IF Closed(b)
                 THEN [ret |-> "BufferClosed", below |-> FALSE, buf |-> b]
                 ELSE [ret |-> "Accepted", below |-> belowCapacity(push(b, c)),
                       buf |-> push(b, c)]

drainOnBelow(b, q2) == Occupied(b.q) >= hwm /\ Occupied(q2) < hwm
drainNever(b, q2) == FALSE
\* the buffer signals its producer when the consumer has emptied it
drainOnPop(b, q2) == b.needDrain /\ q2 = <<>>

takeLast(b) == [ret |-> "Chunk", chunk |-> b.q[Len(b.q)],
                buf |-> [b EXCEPT !.q = SubSeq(b.q, 1, Len(b.q) - 1),
                                  !.drain = @ \/ drainOnPop(b, SubSeq(b.q, 1, Len(b.q) - 1)),
                                  !.needDrain = @ /\ ~drainOnPop(b, SubSeq(b.q, 1, Len(b.q) - 1))]]
\* the consumer takes the oldest chunk out of the buffer
take(b) == [ret |-> "Chunk", chunk |-> Head(b.q),
            buf |-> [b EXCEPT !.q = Tail(b.q),
                              !.drain = @ \/ drainOnPop(b, Tail(b.q)),
                              !.needDrain = @ /\ ~drainOnPop(b, Tail(b.q))]]

popMarkerFirst(b) ==
    IF b.error # NoError THEN [ret |-> "Error", error |-> b.error, buf |-> [b EXCEPT !.q = <<>>]]
    ELSE IF b.q # <<>> THEN take(b)
    ELSE IF b.ended THEN [ret |-> "EndOfStream", buf |-> b]
    ELSE [ret |-> "Empty", buf |-> b]
popWhenFull(b) ==
    IF b.q # <<>> /\ (Occupied(b.q) >= hwm \/ Closed(b)) THEN take(b)
    ELSE IF b.q = <<>> /\ b.error # NoError THEN [ret |-> "Error", error |-> b.error, buf |-> b]
    ELSE IF b.q = <<>> /\ b.ended THEN [ret |-> "EndOfStream", buf |-> b]
    ELSE [ret |-> "Empty", buf |-> b]
\* pop(): the oldest chunk, or the terminal marker of an empty closed buffer
pop(b) == IF b.q # <<>> THEN take(b)
          ELSE IF b.error # NoError THEN [ret |-> "Error", error |-> b.error, buf |-> b]
          ELSE IF b.ended THEN [ret |-> "EndOfStream", buf |-> b]
          ELSE [ret |-> "Empty", buf |-> b]

markEndNot(b) == b
\* end-of-stream is recorded; queued chunks stay
markEnd(b) == [b EXCEPT !.ended = TRUE]

\* the first error is recorded; queued chunks stay
markError(b, e) == IF b.error = NoError THEN [b EXCEPT !.error = e] ELSE b

\* ---------------------------------------------------------------- stages
\* the transform's function, one output chunk per input chunk
step(c) == replaceAll(c)

RECURSIVE stepTimes(_, _)
stepTimes(c, n) == IF n = 0 THEN c ELSE stepTimes(step(c), n - 1)

ignoreFull(below) == "Active"
heedFull(below) == IF below THEN "Active" ELSE "Paused"
pauseAlways(below) == "Paused"
\* what a piped producer does with the value its push returned: a full
\* buffer pauses it
afterPush(below) == IF below THEN "Active" ELSE "Paused"

\* a "data" handler that calls write() and drops its result keeps flowing
producerAfterPush(below) == IF mode = "manual" THEN "Active" ELSE afterPush(below)

neverStops == FALSE
\* pipeline() stops the whole chain on the first error and calls back;
\* pipe() and a bare "data" handler do not
stopsOnError == mode = "pipeline"

keepState(s) == st[s]
cancelPauses(s) == "Paused"
\* cancel() of one stage: whatever its state, it is Failed(Cancelled)
cancelState(s) == "Failed"
cancelErrorNone(s) == NoError
cancelError(s) == Cancelled

reportAlways(r) == TRUE
reportNever(r) == FALSE
reportsOnlyFailure(r) == result = NoResult /\ r.kind = "Failed"
\* the completion callback runs once, for the first outcome
reportsNow(r) == result = NoResult

\* stage k has failed with e; b is the buffers after the step's own effect
Fails(k, e, b) ==
    IF stopsOnError
    THEN /\ st' = [s \in Stages |-> IF s = k THEN "Failed" ELSE cancelState(s)]
         /\ err' = [s \in Stages |-> IF s = k THEN e ELSE cancelError(s)]
         /\ buf' = [i \in Producers |-> markError(b[i], e)]
         /\ result' = IF reportsNow(Failed(e)) THEN Failed(e) ELSE result
         /\ reports' = IF reportsNow(Failed(e)) THEN reports + 1 ELSE reports
    ELSE /\ st' = [st EXCEPT ![k] = "Failed"]
         /\ err' = [err EXCEPT ![k] = e]
         /\ buf' = IF k \in Producers THEN [b EXCEPT ![k] = markError(@, e)] ELSE b
         /\ UNCHANGED <<result, reports>>

\* the record of a call on the single buffer tb
NoCall == [op |-> "none", arg |-> <<>>, before |-> EmptyBuffer, ret |-> "none",
           below |-> FALSE, chunk |-> <<>>, error |-> NoError,
           accepted |-> <<>>, popped |-> <<>>, late |-> 0, marker |-> FALSE]

\* the streams of one request, as constructed, with a highWaterMark of H
InitWith(m, H) ==
    /\ mode = m
    /\ nT \in (IF m = "manual" THEN {0} ELSE 1..MaxTransforms)
    /\ file \in Files(MaxChunks)
    /\ hwm \in H
    /\ fault \in Faults(Len(file), nT)
    /\ st = [s \in Stages |-> "Idle"]
    /\ err = [s \in Stages |-> NoError]
    /\ buf = [i \in Producers |-> EmptyBuffer]
    /\ pos = 0
    /\ consumed = [s \in Stages |-> 0]
    /\ delivered = <<>>
    /\ result = NoResult
    /\ reports = 0
    /\ resEnds = 0
    /\ closedPushes = 0
    /\ cancels = 0
    /\ resumes = [i \in Producers |-> 0]
    /\ crashed = FALSE
    /\ tb = EmptyBuffer
    /\ last = NoCall
    /\ ops = 0

InitMode(m) == InitWith(m, {NotesHwm, MaxHwm})

Init == InitMode("pipeline")

endNothing(n) == n
\* res.end(): one more end of the response
endResponse(n) == n + 1

\* the request handler: build the streams, wire them, res.end()
Start ==
    /\ ~crashed
    /\ \A s \in Stages : st[s] = "Idle"
    /\ st' = [s \in Stages |-> "Active"]
    /\ resEnds' = endResponse(resEnds)
    /\ UNCHANGED <<config, err, buf, pos, consumed, delivered, result, reports,
                   closedPushes, cancels, resumes, crashed, harness>>

OriginFails == fault.at = "origin" /\ fault.n = pos

\* the readable reads the next chunk of the file into its buffer
SourceRead ==
    /\ ~crashed
    /\ st[Source] = "Active"
    /\ pos < Len(file)
    /\ ~OriginFails
    /\ LET r == tryPush(buf[Source], file[pos + 1]) IN
       /\ pos' = pos + 1
       /\ buf' = [buf EXCEPT ![Source] = r.buf]
       /\ closedPushes' = IF r.ret = "BufferClosed" THEN closedPushes + 1 ELSE closedPushes
       /\ st' = [st EXCEPT ![Source] = IF r.ret = "BufferClosed" THEN @
                                        ELSE producerAfterPush(r.below)]
    /\ UNCHANGED <<config, err, consumed, delivered, result, reports, resEnds,
                   cancels, resumes, crashed, harness>>

\* the file is exhausted: the readable ends, and a piped destination is ended
SourceEnd ==
    /\ ~crashed
    /\ st[Source] = "Active"
    /\ pos = Len(file)
    /\ ~OriginFails
    /\ st' = [st EXCEPT ![Source] = "Ended"]
    /\ buf' = IF mode = "manual" THEN buf ELSE [buf EXCEPT ![Source] = markEnd(@)]
    /\ UNCHANGED <<config, err, pos, consumed, delivered, result, reports, resEnds,
                   closedPushes, cancels, resumes, crashed, harness>>

\* reading the file fails
SourceFail ==
    /\ ~crashed
    /\ st[Source] = "Active"
    /\ OriginFails
    /\ Fails(Source, OriginError, buf)
    /\ UNCHANGED <<config, pos, consumed, delivered, resEnds, closedPushes,
                   cancels, resumes, crashed, harness>>

Raises(k) == fault.at = "transform" /\ fault.stage = k - 1 /\ fault.n = consumed[k] + 1

\* The transform reports a failure by throwing inside transform() instead of
\* calling callback(error): outside the stream contract, the exception is
\* either taken as the stream's error or escapes every handler and ends the
\* process; which of the two is fixed per run.
escapes(k) == fault.uncaught

\* transform k takes its next input and pushes the transformed chunk
TransformStep(k) ==
    /\ ~crashed
    /\ st[k] = "Active"
    /\ LET r == pop(buf[k - 1])
           b1 == [buf EXCEPT ![k - 1] = r.buf] IN
       /\ r.ret # "Empty"
       /\ IF r.ret = "Chunk"
          THEN /\ consumed' = [consumed EXCEPT ![k] = @ + 1]
               /\ IF Raises(k)
                  THEN IF escapes(k)
                       THEN /\ crashed' = TRUE
                            /\ buf' = b1
                            /\ UNCHANGED <<st, err, result, reports, closedPushes>>
                       ELSE /\ Fails(k, TransformError(k - 1), b1)
                            /\ UNCHANGED <<closedPushes, crashed>>
                  ELSE LET w == tryPush(b1[k], step(r.chunk)) IN
                       /\ buf' = [b1 EXCEPT ![k] = w.buf]
                       /\ closedPushes' = IF w.ret = "BufferClosed" THEN closedPushes + 1
                                          ELSE closedPushes
                       /\ st' = [st EXCEPT ![k] = IF w.ret = "BufferClosed" THEN @
                                                  ELSE afterPush(w.below)]
                       /\ UNCHANGED <<err, result, reports, crashed>>
          ELSE IF r.ret = "EndOfStream"
          THEN /\ st' = [st EXCEPT ![k] = "Ended"]
               /\ buf' = [b1 EXCEPT ![k] = markEnd(@)]
               /\ UNCHANGED <<err, consumed, result, reports, closedPushes, crashed>>
          ELSE /\ Fails(k, r.error, b1)
               /\ UNCHANGED <<consumed, closedPushes, crashed>>
    /\ UNCHANGED <<config, pos, delivered, resEnds, cancels, resumes, harness>>

DeliveryFails == fault.at = "deliver" /\ fault.n = consumed[Sink] + 1

\* the writable takes the oldest chunk of its buffer and writes it out
SinkStep ==
    /\ ~crashed
    /\ st[Sink] = "Active"
    /\ LET r == pop(buf[nT])
           b1 == [buf EXCEPT ![nT] = r.buf] IN
       /\ r.ret # "Empty"
       /\ IF r.ret = "Chunk"
          THEN /\ consumed' = [consumed EXCEPT ![Sink] = @ + 1]
               /\ IF DeliveryFails
                  THEN /\ Fails(Sink, DeliveryError, b1)
                       /\ UNCHANGED delivered
                  ELSE /\ delivered' = Append(delivered, r.chunk)
                       /\ buf' = b1
                       /\ UNCHANGED <<st, err, result, reports>>
          ELSE IF r.ret = "EndOfStream"
          THEN /\ st' = [st EXCEPT ![Sink] = "Ended"]
               /\ buf' = b1
               /\ result' = IF stopsOnError /\ reportsNow(Completed) THEN Completed ELSE result
               /\ reports' = IF stopsOnError /\ reportsNow(Completed) THEN reports + 1 ELSE reports
               /\ UNCHANGED <<err, consumed, delivered>>
          ELSE /\ Fails(Sink, r.error, b1)
               /\ UNCHANGED <<consumed, delivered>>
    /\ UNCHANGED <<config, pos, resEnds, closedPushes, cancels, resumes, crashed, harness>>

\* a paused producer sees the drain signal of its buffer and flows again
Resume(k) ==
    /\ ~crashed
    /\ st[k] = "Paused"
    /\ buf[k].drain
    /\ st' = [st EXCEPT ![k] = "Active"]
    /\ buf' = [buf EXCEPT ![k].drain = FALSE]
    /\ resumes' = [resumes EXCEPT ![k] = @ + 1]
    /\ UNCHANGED <<config, err, pos, consumed, delivered, result, reports, resEnds,
                   closedPushes, cancels, crashed, harness>>

Next ==
    \/ Start
    \/ SourceRead
    \/ SourceEnd
    \/ SourceFail
    \/ \E k \in Transforms : TransformStep(k)
    \/ SinkStep
    \/ \E k \in Producers : Resume(k)

Spec == Init /\ [][Next]_vars

\* cancel() on stage s, from any state: s is Failed(Cancelled) and its buffer
\* carries the error; as a first failure it is carried to every other stage
Cancel(s) ==
    /\ ~crashed
    /\ cancels < MaxCancels
    /\ cancels' = cancels + 1
    /\ IF \E t \in Stages : st[t] = "Failed"
       THEN /\ st' = [st EXCEPT ![s] = cancelState(s)]
            /\ err' = [err EXCEPT ![s] = cancelError(s)]
            /\ buf' = IF s \in Producers THEN [buf EXCEPT ![s] = markError(@, Cancelled)]
                      ELSE buf
            /\ UNCHANGED <<result, reports>>
       ELSE /\ st' = [t \in Stages |-> cancelState(t)]
            /\ err' = [t \in Stages |-> cancelError(t)]
            /\ buf' = [i \in Producers |-> markError(buf[i], Cancelled)]
            /\ result' = IF reportsNow(Failed(Cancelled)) THEN Failed(Cancelled) ELSE result
            /\ reports' = IF reportsNow(Failed(Cancelled)) THEN reports + 1 ELSE reports
    /\ UNCHANGED <<config, pos, consumed, delivered, resEnds, closedPushes, resumes,
                   crashed, harness>>

CancelNext ==
    \/ Next
    \/ \E s \in Stages : Cancel(s)

CancelSpec == Init /\ [][CancelNext]_vars

\* the event loop runs a pending handler: as long as some stream can take a
\* step, one is taken
FairSpec == Spec /\ WF_vars(Next)

\* The worked example: a file of three chunks, one transform, every buffer
\* full with a single chunk, nothing fails.
ExampleInit ==
    /\ InitWith("pipeline", {1})
    /\ Len(file) = 3
    /\ nT = 1
    /\ fault = NoFault

ExampleNext ==
    \/ Start
    \/ SourceRead
    \/ SourceEnd
    \/ \E k \in Transforms : TransformStep(k)
    \/ SinkStep
    \/ \E k \in Producers : Resume(k)

ExampleSpec == ExampleInit /\ [][ExampleNext]_vars

\* The copy by hand (server.js): the "data" handler writes every chunk read
\* into the writable and looks at nothing else; no transform, and no I/O
\* error during the copy.
ManualInit ==
    /\ InitMode("manual")
    /\ fault = NoFault

ManualNext ==
    \/ Start
    \/ SourceRead
    \/ SourceEnd
    \/ SinkStep

ManualSpec == ManualInit /\ [][ManualNext]_vars

\* ---------------------------------------------------------------- one buffer
\* The buffer's operations applied in any order to one buffer tb; last is the
\* latest call: its argument, the buffer before it and what it returned.
BufInit ==
    /\ InitMode("pipeline")
    /\ file = <<>>
    /\ nT = 1
    /\ fault = NoFault

Call(op, arg, r) ==
    [op |-> op, arg |-> arg, before |-> tb, ret |-> r.ret,
     below |-> IF op = "tryPush" THEN r.below ELSE FALSE,
     chunk |-> IF r.ret = "Chunk" THEN r.chunk ELSE <<>>,
     error |-> IF r.ret = "Error" THEN r.error ELSE NoError,
     accepted |-> IF r.ret = "Accepted" THEN Append(last.accepted, arg) ELSE last.accepted,
     popped |-> IF r.ret = "Chunk" THEN Append(last.popped, r.chunk) ELSE last.popped,
     late |-> IF r.ret = "Chunk" /\ Closed(tb) THEN last.late + 1 ELSE last.late,
     marker |-> last.marker \/ r.ret \in {"EndOfStream", "Error"}]

BufTryPush(c) ==
    /\ ops < MaxOps
    /\ ops' = ops + 1
    /\ tb' = tryPush(tb, c).buf
    /\ last' = Call("tryPush", c, tryPush(tb, c))
    /\ UNCHANGED <<config, st, err, buf, pos, consumed, delivered, result, reports,
                   resEnds, closedPushes, cancels, resumes, crashed>>

BufPop ==
    /\ ops < MaxOps
    /\ ops' = ops + 1
    /\ tb' = pop(tb).buf
    /\ last' = Call("pop", <<>>, pop(tb))
    /\ UNCHANGED <<config, st, err, buf, pos, consumed, delivered, result, reports,
                   resEnds, closedPushes, cancels, resumes, crashed>>

BufMarkEnd ==
    /\ ops < MaxOps
    /\ ops' = ops + 1
    /\ tb' = markEnd(tb)
    /\ last' = Call("markEnd", <<>>, [ret |-> "done"])
    /\ UNCHANGED <<config, st, err, buf, pos, consumed, delivered, result, reports,
                   resEnds, closedPushes, cancels, resumes, crashed>>

BufMarkError(e) ==
    /\ ops < MaxOps
    /\ ops' = ops + 1
    /\ tb' = markError(tb, e)
    /\ last' = Call("markError", e, [ret |-> "done"])
    /\ UNCHANGED <<config, st, err, buf, pos, consumed, delivered, result, reports,
                   resEnds, closedPushes, cancels, resumes, crashed>>

BufNext ==
    \/ \E c \in Chunks : BufTryPush(c)
    \/ BufPop
    \/ BufMarkEnd
    \/ \E e \in {OriginError, Cancelled} : BufMarkError(e)

BufferSpec == BufInit /\ [][BufNext]_vars

\* ---------------------------------------------------------------- properties
IsPrefix(a, b) == Len(a) <= Len(b) /\ \A i \in 1..Len(a) : a[i] = b[i]

\* what the writable is to receive: every chunk of the file through every transform
Expected == [i \in 1..Len(file) |-> stepTimes(file[i], nT)]

Front(q) == SubSeq(q, 1, Len(q) - 1)

AnyFailed == \E s \in Stages : st[s] = "Failed"

\* C1: whatever the file and the interleaving of the stages, the chunks the
\* Sink has received are, in order, the transformed chunks of the file from
\* its first on: nothing overtakes, nothing is skipped.
C1_OrderPreserved == IsPrefix(delivered, Expected)

C1_Witness ==
    /\ result = Completed
    /\ Len(delivered) >= 2
    /\ delivered[1] # delivered[2]
    /\ resumes[Source] >= 1

\* C2: in a pipeline run every buffer without its newest chunk is below the
\* highWaterMark: occupancy passes the capacity by at most the one chunk whose
\* push found the buffer not full.
C2_BoundedMemory ==
    \A i \in Producers : buf[i].q # <<>> => Occupied(Front(buf[i].q)) < hwm

C2_Witness ==
    \E i \in Producers : Occupied(buf[i].q) > hwm /\ Len(buf[i].q) >= 2

\* C3: the Source is never Active while its buffer is at capacity (the push
\* that filled it paused it in the same step), it produces a chunk only
\* when Active with the buffer below capacity, and once a drain signal is
\* pending for the Paused Source its next step is the resume: it produces
\* nothing before being Active again.
C3_Backpressure ==
    /\ [](Occupied(buf[Source].q) >= hwm => st[Source] # "Active")
    /\ [][pos' # pos => (st[Source] = "Active" /\ Occupied(buf[Source].q) < hwm)]_vars
    /\ [][(st[Source] = "Paused" /\ buf[Source].drain /\ st'[Source] # "Paused")
          => (pos' = pos /\ st'[Source] \in {"Active", "Failed"})]_vars
    /\ []((st[Source] = "Paused" /\ buf[Source].drain /\ ~crashed)
          => ENABLED Resume(Source))

C3_Witness ==
    /\ resumes[Source] >= 1
    /\ st[Source] = "Paused"
    /\ buf[Source].drain
    /\ pos < Len(file)

\* transform stage k has raised on an input
Raised(k) == fault.at = "transform" /\ fault.stage = k - 1 /\ consumed[k] >= fault.n

\* C4: once transform k has raised on its n-th input, run() has reported
\* Failed(TransformError(k)) and the Sink holds only outputs of inputs before
\* the n-th.
C4_AllOrNothingFailure ==
    \A k \in Transforms :
        Raised(k) => /\ result = Failed(TransformError(k - 1))
                     /\ Len(delivered) < fault.n
                     /\ IsPrefix(delivered, Expected)

\* the exception of transform() has escaped after the Sink received output:
\* the process is over and the callback has not run
C4_Witness ==
    /\ crashed
    /\ \E k \in Transforms : Raised(k)
    /\ Len(delivered) >= 1
    /\ result = NoResult

C6_IdempotentTermination ==
    /\ [][result # NoResult => (result' = result /\ reports' = reports)]_vars
    /\ [](closedPushes = 0)

C6_Witness ==
    /\ cancels = MaxCancels
    /\ result = Completed

C8_TryPush ==
    last.op = "tryPush" =>
        IF Closed(last.before)
        THEN last.ret = "BufferClosed" /\ tb.q = last.before.q
        ELSE /\ last.ret = "Accepted"
             /\ tb.q = Append(last.before.q, last.arg)
             /\ last.below = (Occupied(tb.q) < hwm)

C8_Witness ==
    /\ last.op = "tryPush"
    /\ last.ret = "Accepted"
    /\ ~last.below
    /\ Occupied(tb.q) = hwm
    /\ Len(tb.q) >= 2

\* C9: a repeated markEnd or markError changes nothing; no tryPush is
\* accepted once either is set; pop returns the queued chunks oldest first
\* also after the marker was set, returns EndOfStream or Error only from an
\* empty closed buffer, and once it has returned one the buffer is empty.
C9_Markers ==
    /\ (last.op = "markEnd" /\ last.before.ended) => tb = last.before
    /\ (last.op = "markError" /\ last.before.error = last.arg) => tb = last.before
    /\ (last.op = "tryPush" /\ Closed(last.before))
       => (last.ret # "Accepted" /\ tb.q = last.before.q)
    /\ (last.op = "pop" /\ last.before.q # <<>>)
       => (last.ret = "Chunk" /\ last.chunk = Head(last.before.q)
           /\ tb.q = Tail(last.before.q))
    /\ (last.op = "pop" /\ last.before.q = <<>>)
       => (last.ret \in {"EndOfStream", "Error"}) = Closed(last.before)
    /\ IsPrefix(last.popped, last.accepted)
    /\ last.marker => tb.q = <<>>

C9_Witness ==
    /\ last.op = "pop"
    /\ last.ret = "Error"
    /\ last.late >= 2
    /\ last.popped[1] # last.popped[2]

PopsAt(i) == Len(buf'[i].q) < Len(buf[i].q)

\* C10 as stated: every pop that takes a buffer from at-capacity to below
\* capacity raises the buffer's drain signal.
C10_DrainOnBelowCapacity ==
    [][\A i \in Producers :
          (PopsAt(i) /\ Occupied(buf[i].q) >= hwm /\ Occupied(buf'[i].q) < hwm)
          => buf'[i].drain]_vars

\* C10 amended: a pop raises the drain signal exactly when it empties a
\* buffer whose producer is Paused on it; a pop that leaves chunks queued
\* raises none, whatever the occupancy.
C10_DrainOnEmpty ==
    [][\A i \in Producers :
          PopsAt(i) => (buf'[i].drain = (buf'[i].q = <<>> /\ st[i] = "Paused"))]_vars

C10_Witness ==
    \E i \in Producers :
        /\ buf[i].drain
        /\ st[i] = "Paused"
        /\ hwm = MaxHwm
        /\ consumed[i + 1] >= 3

\* the pauses the Source has gone through
Pauses == resumes[Source] + (IF st[Source] = "Paused" THEN 1 ELSE 0)

\* C11 as stated: in the example the Sink ends with the three transformed
\* chunks in order, the result is Completed and the Source has paused and
\* resumed exactly twice.
C11_ExampleTwoPauses ==
    result = Completed => (delivered = Expected /\ resumes[Source] = 2 /\ Pauses = 2)

\* C11 amended: the example run can always go on until Completed is
\* reported, never reports a failure, ends with the three transformed chunks
\* in order, and the Source pauses after every push and resumes after each
\* pause: three times.
C11_ExampleThreePauses ==
    /\ result \in {NoResult, Completed}
    /\ result = NoResult => ENABLED ExampleNext
    /\ Pauses = pos
    /\ result = Completed => (delivered = Expected /\ Len(delivered) = 3
                               /\ resumes[Source] = 3 /\ Pauses = 3)

C11_Witness ==
    /\ result = Completed
    /\ resumes[Source] = 3
    /\ delivered[1] # delivered[2]
    /\ delivered[2] = delivered[3]

\* the failure example: a file of two chunks, one transform, which raises on
\* the second
FailureExample ==
    /\ Len(file) = 2
    /\ nT = 1
    /\ fault.at = "transform" /\ fault.stage = 0 /\ fault.n = 2

\* C12: in the failure example, once the transform has raised on the second
\* chunk the Sink holds at most the output for the first and run() has
\* reported Failed(TransformError(0)); in every run with a failure the Sink
\* holds a prefix of the transformed chunks.
C12_FailureExample ==
    /\ (FailureExample /\ Raised(1))
       => (/\ Len(delivered) <= 1
           /\ IsPrefix(delivered, Expected)
           /\ result = Failed(TransformError(0)))
    /\ (AnyFailed \/ \E k \in Transforms : Raised(k)) => IsPrefix(delivered, Expected)

\* the failure example has ended with the exception escaped, the output for
\* the first chunk delivered and nothing reported
C12_Witness ==
    /\ FailureExample
    /\ Raised(1)
    /\ crashed
    /\ delivered = <<step(file[1])>>
    /\ result = NoResult

\* no stream of the chain runs any more
Stopped == crashed \/ \A s \in Stages : st[s] \in {"Ended", "Failed"}

\* C13: once a transform passed to pipeline() has failed, the whole chain is
\* stopped, the callback has been called once, with that error, and from
\* then on no stage takes a chunk and nothing reaches the writable.
C13_PipelineStopsAndCallsBack ==
    /\ [](\A k \in Transforms :
            Raised(k) => (/\ Stopped
                          /\ reports = 1
                          /\ result = Failed(TransformError(k - 1))))
    /\ [][(\E k \in Transforms : Raised(k))
          => (delivered' = delivered /\ consumed' = consumed /\ pos' = pos)]_vars

\* the chain has stopped on a transform's exception with chunks still queued
\* and unread, and the callback has not been called
C13_Witness ==
    /\ \E k \in Transforms : Raised(k)
    /\ Stopped
    /\ pos < Len(file)
    /\ \E i \in Producers : buf[i].q # <<>>
    /\ reports = 0

\* C14: the Source pushes only while Active; it is Paused right after a push
\* exactly when that push left the buffer not below the highWaterMark; and it
\* leaves Paused for Active only on a pending drain signal of its buffer,
\* without having read anything in between.
C14_PushThenPause ==
    /\ [][pos' # pos
          => (/\ st[Source] = "Active"
              /\ Len(buf'[Source].q) = Len(buf[Source].q) + 1
              /\ (st'[Source] = "Paused") = (Occupied(buf'[Source].q) >= hwm)
              /\ st'[Source] \in {"Active", "Paused"})]_vars
    /\ [][(st[Source] = "Paused" /\ st'[Source] = "Active")
          => (buf[Source].drain /\ ~buf'[Source].drain /\ pos' = pos)]_vars
    /\ []((st[Source] = "Paused" /\ ~crashed) => ~ENABLED SourceRead)

C14_Witness ==
    /\ st[Source] = "Paused"
    /\ ~buf[Source].drain
    /\ resumes[Source] >= 1
    /\ Occupied(buf[Source].q) > hwm
    /\ pos < Len(file)

\* C15 as stated: no producer is ever Paused with its buffer below the
\* highWaterMark and no drain signal pending.
C15_NeverPausedBelowCapacity ==
    \A i \in Producers :
        ~(st[i] = "Paused" /\ Occupied(buf[i].q) < hwm /\ ~buf[i].drain)

\* C15 amended: a Paused producer always has its wakeup either pending or
\* still owed by its buffer, which holds chunks for the consumer to take and
\* remembers to signal when emptied; it is never Paused on an empty buffer
\* without a pending signal; and while the process runs every pause ends.
C15_NoLostWakeup ==
    /\ [](\A i \in Producers :
            st[i] = "Paused" => (buf[i].drain \/ (buf[i].q # <<>> /\ buf[i].needDrain)))
    /\ []<>(crashed \/ \A i \in Producers : st[i] # "Paused")

\* a producer is Paused, a pop has taken its buffer below the highWaterMark
\* without emptying it, and no signal is pending yet
C15_Witness ==
    \E i \in Producers :
        /\ st[i] = "Paused"
        /\ buf[i].q # <<>>
        /\ Occupied(buf[i].q) < hwm
        /\ ~buf[i].drain
        /\ consumed[i + 1] >= 1

\* the moves of a stream on its own
SourceMoves == {<<"Idle", "Active">>, <<"Active", "Paused">>, <<"Paused", "Active">>,
                <<"Active", "Ended">>, <<"Active", "Failed">>}

\* C16: every change of the Source's state is one of Idle -> Active,
\* Active <-> Paused, Active -> Ended, Active -> Failed, or a cancellation
\* from whatever state into Failed(Cancelled) with its buffer marked; and
\* cancel() on the Source always leaves it Failed(Cancelled) with the
\* buffer marked.
C16_SourceStates ==
    /\ [][st'[Source] # st[Source]
          => \/ <<st[Source], st'[Source]>> \in SourceMoves
             \/ /\ st'[Source] = "Failed"
                /\ err'[Source] = Cancelled
                /\ buf'[Source].error # NoError]_vars
    /\ [][Cancel(Source)
          => (/\ st'[Source] = "Failed"
              /\ err'[Source] = Cancelled
              /\ buf'[Source].error # NoError
              /\ buf'[Source].q = buf[Source].q)]_vars

\* the Source had ended on its own and was then cancelled
C16_Witness ==
    /\ cancels >= 1
    /\ st[Source] = "Failed"
    /\ err[Source] = Cancelled
    /\ buf[Source].ended
    /\ buf[Source].error = Cancelled
    /\ resumes[Source] >= 1

\* C17: the Source becomes Ended only with the file exhausted and in the
\* same step records end-of-stream on its buffer; an origin error leaves it
\* Failed(OriginError) with the error recorded on its buffer; and a Failed
\* Source pushes nothing more.
C17_SourceEndAndFailure ==
    /\ [][(st'[Source] = "Ended" /\ st[Source] # "Ended")
          => (/\ st[Source] = "Active"
              /\ pos = Len(file)
              /\ ~buf[Source].ended /\ buf'[Source].ended
              /\ buf'[Source].q = buf[Source].q)]_vars
    /\ [](st[Source] = "Ended" => (buf[Source].ended /\ pos = Len(file)))
    /\ [][(st[Source] = "Active" /\ OriginFails /\ st'[Source] # st[Source])
          => (/\ st'[Source] = "Failed"
              /\ err'[Source] \in {OriginError, Cancelled}
              /\ buf'[Source].error # NoError)]_vars
    /\ [](err[Source] = OriginError
          => (st[Source] = "Failed" /\ buf[Source].error = OriginError /\ pos = fault.n))
    /\ [][st[Source] = "Failed"
          => (pos' = pos /\ Len(buf'[Source].q) <= Len(buf[Source].q))]_vars

\* the origin failed after the Source had been paused and resumed, with a
\* chunk still queued
C17_Witness ==
    /\ err[Source] = OriginError
    /\ resumes[Source] >= 1
    /\ buf[Source].q # <<>>
    /\ pos < Len(file)

\* an error is recorded on some buffer
ErrorRecorded == \E i \in Producers : buf[i].error # NoError

C19_TransformErrorStops ==
    /\ [](\A k \in Transforms : Raised(k) => buf[k].error # NoError)
    /\ [][\A k \in Transforms :
            Raised(k) => (/\ consumed'[k] = consumed[k]
                          /\ buf'[k - 1].q = buf[k - 1].q
                          /\ buf'[k].q = buf[k].q)]_vars

\* a transform has raised with input still queued, the exception escaped and
\* no error is recorded on its output buffer
C19_Witness ==
    \E k \in Transforms :
        /\ Raised(k)
        /\ crashed
        /\ buf[k - 1].q # <<>>
        /\ buf[k].error = NoError
        /\ consumed[k] >= 2

\* the smallest chunk, in bytes
MinBytes == CHOOSE m \in {ByteLength(c) : c \in Chunks} :
                \A c \in Chunks : m <= ByteLength(c)

\* the most chunks one buffer holds when its producer pauses on a full buffer
ChunkBound == ((hwm - 1) \div MinBytes) + 1

\* the chunks held in buffers 0..i
RECURSIVE InFlight(_)
InFlight(i) == IF i < 0 THEN 0 ELSE Len(buf[i].q) + InFlight(i - 1)

\* C20: a transform is never Active with its output buffer at capacity and
\* takes an input chunk only when Active with its output below capacity; so
\* the Source never gets further ahead of the Sink than the buffers of the
\* chain hold, however many transforms there are.
C20_TransitiveBackpressure ==
    /\ [](\A k \in Transforms : Occupied(buf[k].q) >= hwm => st[k] # "Active")
    /\ [][\A k \in Transforms :
            consumed'[k] # consumed[k]
            => (st[k] = "Active" /\ Occupied(buf[k].q) < hwm)]_vars
    /\ [](\A i \in Producers : Len(buf[i].q) <= ChunkBound)
    /\ [](InFlight(nT) <= (nT + 1) * ChunkBound)
    /\ [](pos - consumed[Sink] <= (nT + 1) * ChunkBound)

\* the Sink has taken nothing and every stage before it, through two
\* transforms, is Paused on a full buffer
C20_Witness ==
    /\ nT = 2
    /\ consumed[Sink] = 0
    /\ \A i \in Producers : st[i] = "Paused" /\ ~buf[i].drain
    /\ InFlight(nT) = (nT + 1) * ChunkBound

\* stage s takes no chunk, pushes none and delivers none in this step
NoStepOf(s) ==
    /\ s = Source => pos' = pos
    /\ s # Source => consumed'[s] = consumed[s]
    /\ s = Sink => delivered' = delivered
    /\ s \in Producers => Len(buf'[s].q) <= Len(buf[s].q)

\* C21: cancel() on a stage leaves it Failed in the very step of the call,
\* a Failed stage stays Failed, and a Failed stage never reads, takes,
\* pushes or delivers a chunk.
C21_CancelTakesEffect ==
    /\ [][\A s \in Stages : Cancel(s) => (st'[s] = "Failed" /\ NoStepOf(s))]_vars
    /\ [][\A s \in Stages : st[s] = "Failed" => (st'[s] = "Failed" /\ NoStepOf(s))]_vars

\* the run was cancelled midway: chunks unread, chunks queued, one delivered
C21_Witness ==
    /\ cancels >= 1
    /\ result = Failed(Cancelled)
    /\ pos < Len(file)
    /\ \E i \in Producers : buf[i].q # <<>> /\ st[i] = "Failed"
    /\ Len(delivered) >= 1

\* C22: the Sink is never Paused; while it is Active it can take its next
\* step exactly when its input buffer holds a chunk or is closed, so it waits
\* only on an empty open buffer and goes on as soon as a chunk or a terminal
\* marker is there, also right after a delivery.
C22_SinkNeverPauses ==
    /\ [](st[Sink] # "Paused")
    /\ []((st[Sink] = "Active" /\ ~crashed)
          => ((ENABLED SinkStep) = (buf[nT].q # <<>> \/ Closed(buf[nT]))))
    /\ [][(delivered' # delivered /\ buf'[nT].q # <<>>) => st'[Sink] = "Active"]_vars

\* the Sink has delivered a chunk and is idle on an empty open buffer while
\* the Source still has chunks to read
C22_Witness ==
    /\ st[Sink] = "Active"
    /\ buf[nT].q = <<>>
    /\ ~Closed(buf[nT])
    /\ Len(delivered) >= 1
    /\ pos < Len(file)

\* the delivery of a chunk to the destination has failed
DeliveryFailed == fault.at = "deliver" /\ consumed[Sink] >= fault.n

\* C23: once the delivery of a chunk has failed the Sink is
\* Failed(DeliveryError), the failure reported is DeliveryError, and neither
\* that chunk nor a later one is delivered: the Sink takes nothing more.
C23_DeliveryFailure ==
    /\ [](DeliveryFailed
          => (/\ st[Sink] = "Failed"
              /\ err[Sink] = DeliveryError
              /\ result = Failed(DeliveryError)
              /\ consumed[Sink] = fault.n
              /\ Len(delivered) = fault.n - 1
              /\ IsPrefix(delivered, Expected)))
    /\ [][DeliveryFailed
          => (delivered' = delivered /\ consumed'[Sink] = consumed[Sink]
              /\ st'[Sink] = "Failed")]_vars

\* the second delivery failed with a later chunk already queued for the Sink
C23_Witness ==
    /\ DeliveryFailed
    /\ Len(delivered) >= 1
    /\ buf[nT].q # <<>>
    /\ err[Sink] = DeliveryError

\* C24: every run, under a fair event loop, reaches a state where a result
\* has been reported with the Sink Ended or some stage Failed.
C24_Termination ==
    <>(result # NoResult /\ (st[Sink] = "Ended" \/ AnyFailed))

\* the run is over without a result: the exception of a transform escaped
\* while the Source was Paused, and no stream can take a step any more
C24_Witness ==
    /\ crashed
    /\ result = NoResult
    /\ st[Source] = "Paused"
    /\ st[Sink] = "Active"
    /\ ~AnyFailed
    /\ ~ENABLED Next

\* C25: when Completed is reported every chunk of the file has been read and
\* has passed every transform once, and the Sink has received exactly the
\* transformed chunks, in the order of the file, none missing, none twice.
C25_NoLossNoDuplication ==
    result = Completed
    => (/\ delivered = Expected
        /\ pos = Len(file)
        /\ \A s \in Stages \ {Source} : consumed[s] = Len(file)
        /\ \A i \in Producers : buf[i].q = <<>>)

\* a file of three chunks went through two transforms, the first chunk
\* changed by them, with chunks queued behind one another on the way
C25_Witness ==
    /\ result = Completed
    /\ nT = 2
    /\ Len(delivered) = 3
    /\ delivered[1] # file[1]
    /\ delivered[2] = file[2]
    /\ resumes[1] >= 1
    /\ hwm = MaxHwm

\* C26: no push is ever refused with BufferClosed: a buffer with
\* end-of-stream or an error recorded has a producer that is Ended or Failed,
\* and no chunk is ever added to such a buffer, whenever cancel() or the
\* propagation of a failure marks it.
C26_NoBufferClosed ==
    /\ [](closedPushes = 0)
    /\ [](\A i \in Producers : Closed(buf[i]) => st[i] \in {"Ended", "Failed"})
    /\ [][\A i \in Producers :
            Len(buf'[i].q) > Len(buf[i].q) => (~Closed(buf[i]) /\ st[i] = "Active")]_vars

\* cancel() marked the Source's buffer when the Source was Paused between
\* two pushes with the drain signal already pending
C26_Witness ==
    /\ cancels >= 1
    /\ buf[Source].error = Cancelled
    /\ ~buf[Source].ended
    /\ buf[Source].drain
    /\ pos >= 1 /\ pos < Len(file)
    /\ closedPushes = 0

\* C27: in the copy by hand the readable is never Paused: while chunks are
\* left it can always read and write the next one, whatever the writable's
\* buffer holds, so that buffer holds every chunk read and not yet written
\* out, up to the whole file.
C27_ManualCopyUnbounded ==
    /\ [](st[Source] \in {"Idle", "Active", "Ended"})
    /\ []((st[Source] = "Active" /\ pos < Len(file)) => ENABLED SourceRead)
    /\ [](Len(buf[Source].q) = pos - consumed[Sink])
    /\ [][pos' # pos => (/\ buf'[Source].q = Append(buf[Source].q, file[pos'])
                          /\ st'[Source] = "Active")]_vars

\* the writable's buffer is over its highWaterMark even without its two
\* newest chunks, and the readable is still flowing
C27_Witness ==
    /\ mode = "manual"
    /\ Len(buf[Source].q) >= 3
    /\ Occupied(Front(Front(buf[Source].q))) >= hwm
    /\ st[Source] = "Active"

\* the handler has run for the request
Started == \A s \in Stages : st[s] # "Idle"

\* C29: the response is ended once, in the step that starts the pipeline and
\* before any result; nothing that happens to the pipeline afterwards, a
\* reported success, a reported failure or an escaped exception, ends it
\* again or touches it.
C29_ResponseEndedOnce ==
    /\ [](resEnds = (IF Started THEN 1 ELSE 0))
    /\ [][resEnds' # resEnds
          => (/\ \A s \in Stages : st[s] = "Idle" /\ st'[s] = "Active"
              /\ result = NoResult /\ result' = NoResult
              /\ pos' = 0)]_vars
    /\ [][(result' # result \/ crashed' # crashed \/ AnyFailed')
          => (resEnds = 1 /\ resEnds' = 1)]_vars

\* the pipeline has failed and said so after the response was ended
C29_Witness ==
    /\ resEnds = 1
    /\ result # NoResult
    /\ result.kind = "Failed"
    /\ result.error = TransformError(nT - 1)
    /\ nT = 2

====
